---- MODULE Spec2Model ----
(***************************************************************************)
(* Model of scraper.py: the pagination crawl, per-job dedup against the    *)
(* posted_jobs table, publishing to the WordPress REST API, the taxonomy   *)
(* term helper and the key-info rebuild of parse_job.                      *)
(***************************************************************************)
EXTENDS Integers, Sequences, FiniteSets, TLC

\* ------------------------------------------------------------------ bounds
MaxRuns  == 2      \* process runs over the same durable state
MaxJobs  == 3      \* job links the index pages list, over all runs
MaxLen   == 3      \* characters of a raw key-info value
MaxTerms == 2      \* terms returned by one backend search

\* ------------------------------------------------------------- basic values
None == "None"                      \* Python None for string-valued results
NoData == [isNone |-> TRUE]         \* Python None for a dict-valued result
EmptyDict == [k \in {} |-> None]    \* {}

BASE_URL == "https://www.myjobmag.co.ke"

\* an assignment dict[k] = v that is lost
DictSet_lost(d, k, v) == d
\* dict[k] = v
DictSet(d, k, v) == [x \in (DOMAIN d) \cup {k} |-> IF x = k THEN v ELSE d[x]]

\* a test against the empty string only
Truthy_not_empty(s) == s # ""
\* Python truthiness of a string-or-None value
Truthy(s) == s # None /\ s # ""

\* ------------------------------------------------------------ the listing
JobIds == {"12345", "67890"}
\* the index lists its first n jobs: /job/1, /job/2, ...
Listing(n) == [i \in 1..n |-> "/job/" \o ToString(i)]
\* href of the apply anchor, as its '/'-separated segments
ApplyHrefs == {<<"", "apply-now", "12345">>, <<"", "apply-now", "67890">>,
               <<"", "apply-now", "">>}

\* what get_soup can return for an index page: None or the hrefs it lists
IndexPages == {[ok |-> FALSE, hrefs |-> <<>>]} \cup
              {[ok |-> TRUE, hrefs |-> Listing(n)] : n \in 0..MaxJobs}

\* ------------------------------------------------------------ text helpers
\* Text that the code splits, strips or lower-cases is a sequence of
\* one-character strings.
Chars == {"a", "A", "/", " "}

RECURSIVE lstrip(_)
lstrip(s) == IF s # <<>> /\ Head(s) = " " THEN lstrip(Tail(s)) ELSE s

RECURSIVE rstrip(_)
rstrip(s) ==
  IF s # <<>> /\ s[Len(s)] = " " THEN rstrip(SubSeq(s, 1, Len(s) - 1)) ELSE s

\* str.strip()
strip(s) == lstrip(rstrip(s))

\* str.split("/"): always at least one segment, empty segments kept
RECURSIVE split(_)
split(s) ==
  IF \A i \in 1..Len(s) : s[i] # "/" THEN <<s>>
  ELSE LET i == CHOOSE k \in 1..Len(s) :
                  s[k] = "/" /\ \A m \in 1..(k - 1) : s[m] # "/"
       IN <<SubSeq(s, 1, i - 1)>> \o split(SubSeq(s, i + 1, Len(s)))

lower_char(c) == IF c = "A" THEN "a" ELSE c

\* str.lower()
lower(s) == [i \in 1..Len(s) |-> lower_char(s[i])]

RECURSIVE slugify(_)
slugify(s) ==
  IF s = <<>> THEN <<>>
  ELSE LET c == Head(s)
       IN (IF c = " " \/ c = "/" THEN <<"-">>
           ELSE IF c = "," \/ c = "." THEN <<>>
           ELSE <<lower_char(c)>>) \o slugify(Tail(s))

\* list(dict.fromkeys(xs)): drop repeats, keep first occurrences in order
RECURSIVE dedup(_)
dedup(xs) ==
  IF xs = <<>> THEN <<>>
  ELSE LET r == dedup(SubSeq(xs, 1, Len(xs) - 1))
           x == xs[Len(xs)]
       IN IF \E i \in 1..Len(r) : r[i] = x THEN r ELSE Append(r, x)

SufJobs == <<" ", "J", "o", "b", "s">>
SufExperienceJobs == <<" ", "e", "x", "p", "e", "r", "i", "e", "n", "c", "e">> \o SufJobs
PreJobsIn == <<"J", "o", "b", "s", " ", "i", "n", " ">>

\* ------------------------------------------------- parse_job: key-info list
\* A key-info <li> is [key, val]: key is the label after rstrip(":") (None when
\* the li lacks the title span or the value span), val the raw value text.
\* job_info, a dict, is the sequence of its (key, val) items in insertion
\* order.
dict_put(d, k, v) ==
  IF \E i \in 1..Len(d) : d[i].key = k
  THEN [i \in 1..Len(d) |-> IF d[i].key = k THEN [key |-> k, val |-> v] ELSE d[i]]
  ELSE Append(d, [key |-> k, val |-> v])

\* job_info.get(k, "")
dict_get(d, k) ==
  IF \E i \in 1..Len(d) : d[i].key = k
  THEN d[CHOOSE i \in 1..Len(d) : d[i].key = k].val
  ELSE <<>>

RECURSIVE build_job_info(_)
build_job_info(lis) ==
  IF lis = <<>> THEN <<>>
  ELSE LET d  == build_job_info(SubSeq(lis, 1, Len(lis) - 1))
           li == lis[Len(lis)]
       IN IF li.key # None THEN dict_put(d, li.key, strip(li.val)) ELSE d

\* HTML is a sequence of tokens: literal markup, text, and anchors
Markup(m) == [t |-> "markup", m |-> m]
Text(s) == [t |-> "text", s |-> s]
KeyText(k) == [t |-> "key", k |-> k]
Anchor(path, s) == [t |-> "a", href |-> <<BASE_URL, path, slugify(s)>>, s |-> s]
Joiner == <<" ", "/", " ">>

\* sep.join(parts), each part being a token sequence
RECURSIVE join(_, _)
join(sep, parts) ==
  IF parts = <<>> THEN <<>>
  ELSE IF Len(parts) = 1 THEN parts[1]
  ELSE parts[1] \o <<Text(sep)>> \o join(sep, Tail(parts))

\* [f.strip() for f in val.split("/")]
split_fields(val) == LET segs == split(val) IN [i \in 1..Len(segs) |-> strip(segs[i])]

field_links(val) ==
  LET fields == split_fields(val)
      links  == [i \in 1..Len(fields) |-> <<Anchor("/jobs-by-field/", fields[i])>>]
  IN join(Joiner, links)

li_html(key, val) ==
  <<Markup("<li><span class='jkey-title'>"), KeyText(key), Markup(":</span> ")>> \o
  (IF key = "Job Type" THEN <<Anchor("/jobs-by-type/", val)>>
   ELSE IF key = "Location" THEN <<Anchor("/jobs-location/", val)>>
   ELSE IF key = "Job Field" THEN field_links(val)
   ELSE IF key = "Qualification" THEN <<Anchor("/jobs-by-education/", val)>>
   ELSE IF key = "Experience" THEN <<Anchor("/jobs-by-experience/", val)>>
   ELSE <<Text(val)>>) \o
  <<Markup("</li>")>>

RECURSIVE lis_html(_)
lis_html(job_info) ==
  IF job_info = <<>> THEN <<>>
  ELSE li_html(job_info[1].key, job_info[1].val) \o lis_html(Tail(job_info))

\* job_key_ul_content of a page that has the ul
key_info_html(job_info) == <<Markup("<ul>")>> \o lis_html(job_info) \o <<Markup("</ul>")>>

raw_categories(job_info) ==
  LET job_type  == dict_get(job_info, "Job Type")
      location  == dict_get(job_info, "Location")
      job_field == dict_get(job_info, "Job Field")
  IN (IF job_type # <<>> THEN <<job_type \o SufJobs>> ELSE <<>>) \o
     (IF location # <<>> THEN <<PreJobsIn \o location>> ELSE <<>>) \o
     (IF job_field # <<>> THEN <<split_fields(job_field)[1] \o SufJobs>> ELSE <<>>)

raw_tags(job_info) ==
  LET job_type      == dict_get(job_info, "Job Type")
      qualification == dict_get(job_info, "Qualification")
      experience    == dict_get(job_info, "Experience")
      location      == dict_get(job_info, "Location")
      job_field     == dict_get(job_info, "Job Field")
      fields        == split_fields(job_field)
  IN (IF job_type # <<>> THEN <<job_type \o SufJobs>> ELSE <<>>) \o
     (IF qualification # <<>> THEN <<qualification \o SufJobs>> ELSE <<>>) \o
     (IF experience # <<>> THEN <<experience \o SufExperienceJobs>> ELSE <<>>) \o
     (IF location # <<>> THEN <<location \o SufJobs>> ELSE <<>>) \o
     (IF job_field # <<>> THEN [i \in 1..Len(fields) |-> fields[i] \o SufJobs] ELSE <<>>)

derive_categories(job_info) == dedup(raw_categories(job_info))
\* the tag list without the dict.fromkeys pass
derive_tags_no_dedup(job_info) == raw_tags(job_info)
derive_tags(job_info) == dedup(raw_tags(job_info))

\* ------------------------------------------------------- rewriter, parse_job
\* The rewriting service either raises (ok = FALSE) or returns a completion;
\* a completion is kept abstract as the original marked rewritten.
rewrite_job_title(original_title, ok) ==
  IF ok THEN [text |-> original_title, rewritten |-> TRUE]
  ELSE [text |-> original_title, rewritten |-> FALSE]

rewrite_job_description(raw_html, ok) ==
  IF ok THEN [html |-> raw_html, rewritten |-> TRUE, tips |-> FALSE]
  ELSE [html |-> raw_html, rewritten |-> FALSE, tips |-> FALSE]

\* "" on failure, the generated list otherwise
generate_standout_tips(ok) == ok

rewrite_excerpt(original_excerpt, ok) ==
  IF ok THEN [text |-> original_excerpt, rewritten |-> TRUE]
  ELSE [text |-> original_excerpt, rewritten |-> FALSE]

RECURSIVE href_str(_)
href_str(segs) ==
  IF Len(segs) = 1 THEN segs[1] ELSE segs[1] \o "/" \o href_str(Tail(segs))

\* requests.get(..., allow_redirects=True).url, or job_url on an exception;
\* redirect is None when the request raises
resolve_apply_link(job_url, redirect) == IF redirect = None THEN job_url ELSE redirect

\* A job detail page (get_soup result): NoData when the fetch failed, else
\* [h1, has_ul, lis, apply_tag]; apply_tag is NoData or [href |-> segments].

\* lines 220-354: the record built from the page, every text through the
\* rewriting service (4 calls)
extract_record(job_url, soup, ai) ==
  LET original_title == IF soup.h1 # None THEN soup.h1 ELSE "Untitled Job"
      job_info == IF soup.has_ul THEN build_job_info(soup.lis) ELSE <<>>
      job_key_ul_content == IF soup.has_ul THEN key_info_html(job_info) ELSE <<>>
      description == rewrite_job_description(job_key_ul_content, ai.description)
      standout_tips == generate_standout_tips(ai.tips)
  IN [url |-> job_url,
      title |-> rewrite_job_title(original_title, ai.title),
      description |-> [description EXCEPT !.tips = standout_tips],
      categories |-> derive_categories(job_info),
      tags |-> derive_tags(job_info),
      excerpt |-> rewrite_excerpt(original_title, ai.excerpt),
      apply_url |-> None]

\* parse_job with an early return for pages without an apply link
parse_job_early_return(job_url, soup, ai, redirect) ==
  IF soup = NoData \/ soup.apply_tag = NoData
  THEN [job_data |-> NoData, job_id |-> None, resolved_url |-> None, rewrites |-> 0]
  ELSE LET apply_url == BASE_URL \o href_str(soup.apply_tag.href)
           resolved == resolve_apply_link(apply_url, redirect)
       IN [job_data |-> [extract_record(job_url, soup, ai) EXCEPT !.apply_url = resolved],
           job_id |-> soup.apply_tag.href[Len(soup.apply_tag.href)],
           resolved_url |-> resolved, rewrites |-> 4]

\* The result carries, next to the returned triple, the number of calls made
\* to the rewriting service.
parse_job(job_url, soup, ai, redirect) ==
  IF soup = NoData
  THEN [job_data |-> NoData, job_id |-> None, resolved_url |-> None, rewrites |-> 0]
  ELSE
    LET data == extract_record(job_url, soup, ai)
    IN IF soup.apply_tag # NoData
       THEN LET apply_url == BASE_URL \o href_str(soup.apply_tag.href)
                resolved == resolve_apply_link(apply_url, redirect)
            IN [job_data |-> [data EXCEPT !.apply_url = resolved],
                job_id |-> soup.apply_tag.href[Len(soup.apply_tag.href)],
                resolved_url |-> resolved, rewrites |-> 4]
       ELSE [job_data |-> data, job_id |-> None, resolved_url |-> None, rewrites |-> 4]

\* ------------------------------------------------------ WordPress helpers
\* A backend response: exc = TRUE when the request raised (transport error),
\* else a status code and the decoded JSON body.
Raised == "RAISED"

\* the for loop of get_wp_term_id over the search results
RECURSIVE scan_terms(_, _)
scan_terms(terms, name) ==
  IF terms = <<>> THEN [found |-> FALSE, id |-> None]
  ELSE IF ~terms[1].has_name THEN [found |-> TRUE, id |-> Raised]
  ELSE IF lower(terms[1].name) = lower(name) THEN [found |-> TRUE, id |-> terms[1].id]
  ELSE scan_terms(Tail(terms), name)

create_term(create) ==
  IF create.exc THEN Raised
  ELSE IF create.status \in {200, 201} THEN create.id
  ELSE None

\* body of the try block
try_get_wp_term_id(name, search, create) ==
  IF search.exc THEN Raised
  ELSE IF search.status = 200 /\ scan_terms(search.terms, name).found
       THEN scan_terms(search.terms, name).id
  ELSE create_term(create)

\* get_wp_term_id without its except clause
get_wp_term_id_no_except(name, search, create) == try_get_wp_term_id(name, search, create)
\* except Exception: return None
get_wp_term_id(name, search, create) ==
  LET r == try_get_wp_term_id(name, search, create)
  IN IF r = Raised THEN None ELSE r

RECURSIVE truthy_ids(_)
truthy_ids(ids) ==
  IF ids = <<>> THEN <<>>
  ELSE (IF Truthy(ids[1]) THEN <<ids[1]>> ELSE <<>>) \o truthy_ids(Tail(ids))

\* post_to_wordpress accepting any of 200, 201 as success
post_to_wordpress_any_2xx(job, search, create, resp) ==
  LET category_ids == [i \in 1..Len(job.categories) |->
                          get_wp_term_id(job.categories[i], search, create)]
      tag_ids == [i \in 1..Len(job.tags) |-> get_wp_term_id(job.tags[i], search, create)]
      payload == [title |-> job.title, content |-> job.description,
                  excerpt |-> job.excerpt, status |-> "publish",
                  categories |-> truthy_ids(category_ids),
                  tags |-> truthy_ids(tag_ids)]
  IN IF resp.exc THEN [ok |-> FALSE, sent |-> TRUE, payload |-> payload]
     ELSE [ok |-> resp.status \in {200, 201}, sent |-> TRUE, payload |-> payload]

\* post_to_wordpress: every term lookup of this call is answered by
\* (search, create); resp answers the create-post request.  The result is the
\* returned bool together with the request that was sent, if any.
post_to_wordpress(job, search, create, resp) ==
  LET category_ids == [i \in 1..Len(job.categories) |->
                          get_wp_term_id(job.categories[i], search, create)]
      tag_ids == [i \in 1..Len(job.tags) |-> get_wp_term_id(job.tags[i], search, create)]
      raised == \/ \E i \in 1..Len(category_ids) : category_ids[i] = Raised
                \/ \E i \in 1..Len(tag_ids) : tag_ids[i] = Raised
      payload == [title |-> job.title, content |-> job.description,
                  excerpt |-> job.excerpt, status |-> "publish",
                  categories |-> truthy_ids(category_ids),
                  tags |-> truthy_ids(tag_ids)]
  IN IF raised THEN [ok |-> FALSE, sent |-> FALSE, payload |-> NoData]
     ELSE IF resp.exc THEN [ok |-> FALSE, sent |-> TRUE, payload |-> payload]
     ELSE [ok |-> resp.status = 201, sent |-> TRUE, payload |-> payload]

\* ------------------------------------------------------------ environment
Lis0 == <<[key |-> "Job Field", val |-> <<"a", "/", "A">>]>>

\* detail pages the crawl can meet
DetailPages ==
  {NoData} \cup
  {[h1 |-> "Nurse at Acme", has_ul |-> TRUE, lis |-> Lis0, apply_tag |-> a] :
      a \in {NoData} \cup {[href |-> h] : h \in ApplyHrefs}}

\* rewriting service in the crawl: answering (its failures are exercised by
\* ParseKeyInfo)
CrawlAi == {[title |-> TRUE, description |-> TRUE, tips |-> TRUE, excerpt |-> TRUE]}

\* where the apply link redirects to; None when the request raises
RedirectTarget == "https://employer.example/careers"
Redirects == {None, RedirectTarget}

NoBody == [exc |-> TRUE, status |-> 0, terms |-> <<>>, id |-> None]
Resp(status) == [NoBody EXCEPT !.exc = FALSE, !.status = status]

\* backend answers during one publish of the crawl
CrawlSearch == {NoBody, Resp(200), Resp(500)}
CrawlCreate == {NoBody, [Resp(201) EXCEPT !.id = "9"], Resp(400)}
PostResponses == {NoBody, Resp(201), Resp(200), Resp(500)}

\* ------------------------------------------------------------------ state
VARIABLES
  run,            \* number of the process run
  pc,             \* position in __main__
  posted,         \* rows of posted_jobs.db
  cacheFile,      \* apply_url_cache.json: [exists, data]
  all_success, all_failed, page, cache,
  job_links, idx, \* the for loop over the links of the current page
  job_data, job_id, resolved_url,
  report,         \* the final print: <<>> before, <<success, failed>> after
  \* history of the current run
  fetched,        \* outcome of the last index fetch: none, failed, empty, links
  detail,         \* the detail page the last parse_job call fetched
  rewrites,       \* rewriter calls made by the last parse_job call
  pubReqs,        \* create-post requests sent
  nCreated,       \* ... answered 201
  nPubFail,       \* post_to_wordpress calls that returned False
  nNoId,          \* links whose parse gave no job_id
  nNoApply,       \* ... of which the fetched page had no apply link
  nSkipped,       \* links skipped as already posted
  nDone,          \* links whose loop body has ended
  attempted,      \* job_ids handed to post_to_wordpress
  posted0,        \* posted_jobs at the start of the run
  cacheFile0,     \* apply_url_cache.json at the start of the run
  writes,         \* writes of apply_url_cache.json
  \* history across runs
  pubOk,          \* per job_id, publishes answered 201
  failedEver,     \* job_ids with a failed publish not followed by a success
  listed,         \* job links listed so far
  \* pure-function harnesses
  ki, tm

crawlVars == <<run, pc, posted, cacheFile, all_success, all_failed, page, cache,
               job_links, idx, job_data, job_id, resolved_url, report, fetched,
               detail, rewrites, pubReqs, nCreated, nPubFail, nNoId, nNoApply,
               nSkipped, nDone, attempted, posted0, cacheFile0, writes, pubOk,
               failedEver, listed>>
vars == <<crawlVars, ki, tm>>

\* is_job_posted that never finds the row
is_job_posted_never(db, id) == FALSE
\* is_job_posted
is_job_posted(db, id) == id \in db

\* mark_job_as_posted whose insert is lost
mark_job_as_posted_lost(db, id) == db
\* mark_job_as_posted: INSERT OR IGNORE
mark_job_as_posted(db, id) == db \cup {id}

\* open(CACHE_FILE, "w") that merges into the old contents
json_dump_merge(file, c) ==
  [exists |-> TRUE,
   data |-> [k \in (DOMAIN file.data) \cup (DOMAIN c) |->
               IF k \in DOMAIN c THEN c[k] ELSE file.data[k]]]
\* open(CACHE_FILE, "w"); json.dump(cache, f)
json_dump(file, c) == [exists |-> TRUE, data |-> c]

\* the loop head stopping only on a failed fetch
stop_paging_on_failure(soup) == ~soup.ok
\* lines 427 and 432: break on a failed fetch or on zero links
stop_paging(soup) == ~soup.ok \/ soup.hrefs = <<>>

\* lines 417-421 of a fresh process
RunInit ==
  /\ pc = "page"
  /\ all_success = 0 /\ all_failed = 0 /\ page = 1 /\ cache = EmptyDict
  /\ job_links = <<>> /\ idx = 0
  /\ job_data = NoData /\ job_id = None /\ resolved_url = None
  /\ report = <<>>
  /\ fetched = "none" /\ detail = NoData
  /\ rewrites = 0 /\ pubReqs = 0 /\ nCreated = 0 /\ nPubFail = 0
  /\ nNoId = 0 /\ nNoApply = 0 /\ nSkipped = 0 /\ nDone = 0
  /\ attempted = {} /\ writes = 0

CrawlInit ==
  /\ run = 1
  /\ posted = {}
  /\ cacheFile = [exists |-> FALSE, data |-> EmptyDict]
  /\ posted0 = {}
  /\ cacheFile0 = [exists |-> FALSE, data |-> EmptyDict]
  /\ pubOk = [j \in JobIds |-> 0]
  /\ failedEver = {}
  /\ listed = 0
  /\ RunInit

Idle == [phase |-> "idle"]

Init == CrawlInit /\ ki = Idle /\ tm = Idle

\* lines 424-436: fetch the index page, stop or enter the for loop
FetchPage ==
  /\ pc = "page"
  /\ \E soup \in IndexPages :
       /\ listed + Len(soup.hrefs) <= MaxJobs
       /\ listed' = listed + Len(soup.hrefs)
       /\ fetched' = IF ~soup.ok THEN "failed"
                     ELSE IF soup.hrefs = <<>> THEN "empty" ELSE "links"
       /\ IF stop_paging(soup)
          THEN pc' = "final" /\ UNCHANGED <<job_links, idx>>
          ELSE /\ job_links' = [i \in 1..Len(soup.hrefs) |-> BASE_URL \o soup.hrefs[i]]
               /\ idx' = 1
               /\ pc' = IF soup.hrefs = <<>> THEN "advance" ELSE "parse"
  /\ UNCHANGED <<run, posted, cacheFile, all_success, all_failed, page, cache,
                 job_data, job_id, resolved_url, report, detail, rewrites,
                 pubReqs, nCreated, nPubFail, nNoId, nNoApply, nSkipped, nDone,
                 attempted, posted0, cacheFile0, writes, pubOk, failedEver,
                 ki, tm>>

\* line 440: parse_job(link)
ParseJob ==
  /\ pc = "parse"
  /\ \E soup \in DetailPages, ai \in CrawlAi, redirect \in Redirects :
       LET r == parse_job(job_links[idx], soup, ai, redirect)
       IN /\ job_data' = r.job_data
          /\ job_id' = r.job_id
          /\ resolved_url' = r.resolved_url
          /\ rewrites' = r.rewrites
          /\ detail' = soup
  /\ pc' = "check"
  /\ UNCHANGED <<run, posted, cacheFile, all_success, all_failed, page, cache,
                 job_links, idx, report, fetched, pubReqs, nCreated, nPubFail,
                 nNoId, nNoApply, nSkipped, nDone, attempted, posted0,
                 cacheFile0, writes, pubOk, failedEver, listed, ki, tm>>

\* continue / end of the loop body: next link, or leave the for loop
NextLink ==
  /\ idx' = idx + 1
  /\ nDone' = nDone + 1
  /\ pc' = IF idx + 1 > Len(job_links) THEN "advance" ELSE "parse"

\* lines 442-457: the skip conditions and the cache entry
CheckJob ==
  /\ pc = "check"
  /\ IF ~Truthy(job_id)
     THEN /\ all_failed' = all_failed + 1
          /\ nNoId' = nNoId + 1
          /\ nNoApply' = nNoApply +
                (IF detail # NoData /\ detail.apply_tag = NoData THEN 1 ELSE 0)
          /\ NextLink
          /\ UNCHANGED <<cache, nSkipped, attempted>>
     ELSE IF is_job_posted(posted, job_id)
     THEN /\ nSkipped' = nSkipped + 1
          /\ NextLink
          /\ UNCHANGED <<cache, all_failed, nNoId, nNoApply, attempted>>
     ELSE IF job_data = NoData
     THEN /\ all_failed' = all_failed + 1
          /\ NextLink
          /\ UNCHANGED <<cache, nSkipped, nNoId, nNoApply, attempted>>
     ELSE /\ cache' = IF Truthy(job_id) /\ Truthy(resolved_url)
                      THEN DictSet(cache, job_id, resolved_url) ELSE cache
          /\ attempted' = attempted \cup {job_id}
          /\ pc' = "post"
          /\ UNCHANGED <<idx, all_failed, nSkipped, nNoId, nNoApply, nDone>>
  /\ UNCHANGED <<run, posted, cacheFile, all_success, page, job_links, job_data,
                 job_id, resolved_url, report, fetched, detail, rewrites,
                 pubReqs, nCreated, nPubFail, posted0, cacheFile0, writes,
                 pubOk, failedEver, listed, ki, tm>>

\* lines 459-463: publish, mark as posted on success
PostJob ==
  /\ pc = "post"
  /\ \E search \in CrawlSearch, create \in CrawlCreate, resp \in PostResponses :
       LET r == post_to_wordpress(job_data, search, create, resp)
           created == r.sent /\ ~resp.exc /\ resp.status = 201
       IN /\ pubReqs' = pubReqs + (IF r.sent THEN 1 ELSE 0)
          /\ nCreated' = nCreated + (IF created THEN 1 ELSE 0)
          /\ pubOk' = IF created THEN [pubOk EXCEPT ![job_id] = @ + 1] ELSE pubOk
          /\ IF r.ok
             THEN /\ all_success' = all_success + 1
                  /\ posted' = mark_job_as_posted(posted, job_id)
                  /\ failedEver' = failedEver \ {job_id}
                  /\ UNCHANGED <<all_failed, nPubFail>>
             ELSE /\ all_failed' = all_failed + 1
                  /\ nPubFail' = nPubFail + 1
                  /\ failedEver' = failedEver \cup {job_id}
                  /\ UNCHANGED <<all_success, posted>>
  /\ NextLink
  /\ UNCHANGED <<run, cacheFile, page, cache, job_links, job_data, job_id,
                 resolved_url, report, fetched, detail, rewrites, nNoId,
                 nNoApply, nSkipped, attempted, posted0, cacheFile0, writes,
                 listed, ki, tm>>

\* lines 465-466: page += 1
NextPage ==
  /\ pc = "advance"
  /\ page' = page + 1
  /\ pc' = "page"
  /\ UNCHANGED <<run, posted, cacheFile, all_success, all_failed, cache,
                 job_links, idx, job_data, job_id, resolved_url, report,
                 fetched, detail, rewrites, pubReqs, nCreated, nPubFail, nNoId,
                 nNoApply, nSkipped, nDone, attempted, posted0, cacheFile0,
                 writes, pubOk, failedEver, listed, ki, tm>>

\* lines 468-473: write the cache file if the cache is non-empty, report
Finalize ==
  /\ pc = "final"
  /\ IF cache # EmptyDict
     THEN cacheFile' = json_dump(cacheFile, cache) /\ writes' = writes + 1
     ELSE UNCHANGED <<cacheFile, writes>>
  /\ report' = <<all_success, all_failed>>
  /\ pc' = "done"
  /\ UNCHANGED <<run, posted, all_success, all_failed, page, cache, job_links,
                 idx, job_data, job_id, resolved_url, fetched, detail, rewrites,
                 pubReqs, nCreated, nPubFail, nNoId, nNoApply, nSkipped, nDone,
                 attempted, posted0, cacheFile0, pubOk, failedEver, listed, ki, tm>>

\* the script is started again: lines 417-421 over the durable state
StartRun ==
  /\ pc = "done"
  /\ run < MaxRuns
  /\ run' = run + 1
  /\ posted0' = posted
  /\ cacheFile0' = cacheFile
  /\ pc' = "page"
  /\ all_success' = 0 /\ all_failed' = 0 /\ page' = 1 /\ cache' = EmptyDict
  /\ job_links' = <<>> /\ idx' = 0
  /\ job_data' = NoData /\ job_id' = None /\ resolved_url' = None
  /\ report' = <<>>
  /\ fetched' = "none" /\ detail' = NoData
  /\ rewrites' = 0 /\ pubReqs' = 0 /\ nCreated' = 0 /\ nPubFail' = 0
  /\ nNoId' = 0 /\ nNoApply' = 0 /\ nSkipped' = 0 /\ nDone' = 0
  /\ attempted' = {} /\ writes' = 0
  /\ UNCHANGED <<posted, cacheFile, pubOk, failedEver, listed, ki, tm>>

RunStep == FetchPage \/ ParseJob \/ CheckJob \/ PostJob \/ NextPage \/ Finalize

Next == FetchPage \/ ParseJob \/ CheckJob \/ PostJob \/ NextPage \/ Finalize \/ StartRun

Spec == Init /\ [][Next]_vars

\* the interpreter keeps running the script until it ends
SpecLive == Init /\ [][Next]_vars /\ WF_vars(RunStep)

\* ------------------------------------------- parse_job over key-info lists
RECURSIVE SeqsUpTo(_, _)
SeqsUpTo(S, n) ==
  IF n = 0 THEN {<<>>}
  ELSE LET T == SeqsUpTo(S, n - 1)
       IN T \cup {Append(t, x) : t \in {u \in T : Len(u) = n - 1}, x \in S}

\* raw text of the Job Field value span
RawVals == SeqsUpTo(Chars, MaxLen)

OtherKeys == <<"Job Type", "Qualification", "Experience", "Location", "Salary">>

\* the lis of the other keys in page order, those of set K present
RECURSIVE other_lis(_, _)
other_lis(K, i) ==
  IF i > Len(OtherKeys) THEN <<>>
  ELSE (IF OtherKeys[i] \in K THEN <<[key |-> OtherKeys[i], val |-> <<"a">>]>> ELSE <<>>)
       \o other_lis(K, i + 1)

KeyInfoPages ==
  {[h1 |-> "Nurse at Acme", has_ul |-> TRUE,
    lis |-> IF first
            THEN <<[key |-> "Job Field", val |-> raw]>> \o other_lis(K, 1)
            ELSE other_lis(K, 1) \o <<[key |-> None, val |-> <<>>],
                                      [key |-> "Job Field", val |-> raw]>>,
    apply_tag |-> [href |-> <<"", "apply-now", "12345">>]] :
      raw \in RawVals, K \in SUBSET {OtherKeys[i] : i \in 1..Len(OtherKeys)},
      first \in BOOLEAN}

InitKeyInfo ==
  /\ CrawlInit /\ tm = Idle
  /\ ki \in {[phase |-> "page", soup |-> sp, html |-> <<>>, tags |-> <<>>,
              categories |-> <<>>] : sp \in KeyInfoPages}

\* parse_job on the page; the rewriting service is down, so the description
\* is the composed HTML itself
ParseKeyInfo ==
  /\ ki.phase = "page"
  /\ LET r == parse_job(BASE_URL \o "/job/1", ki.soup,
                        [title |-> FALSE, description |-> FALSE, tips |-> FALSE,
                         excerpt |-> FALSE], None)
     IN ki' = [ki EXCEPT !.phase = "parsed",
                         !.html = r.job_data.description.html,
                         !.tags = r.job_data.tags,
                         !.categories = r.job_data.categories]
  /\ UNCHANGED <<crawlVars, tm>>

NextKeyInfo == ParseKeyInfo

SpecKeyInfo == InitKeyInfo /\ [][NextKeyInfo]_vars

\* --------------------------------------- get_wp_term_id, post_to_wordpress
TermNames == {<<"a">> \o SufJobs, <<"A">> \o SufJobs}
BackendTerms ==
  {[has_name |-> TRUE, name |-> n, id |-> i] :
      n \in TermNames \cup {<<"a", "a">> \o SufJobs}, i \in {"7", "8"}}
  \cup {[has_name |-> FALSE, name |-> <<>>, id |-> "7"]}

SearchResponses ==
  {NoBody, Resp(500)} \cup
  {[Resp(200) EXCEPT !.terms = ts] : ts \in SeqsUpTo(BackendTerms, MaxTerms)}
CreateResponses ==
  {NoBody, Resp(400), Resp(201), [Resp(201) EXCEPT !.id = "9"],
   [Resp(200) EXCEPT !.id = "9"]}

TermJob(name) ==
  [url |-> BASE_URL \o "/job/1", title |-> rewrite_job_title("Nurse at Acme", FALSE),
   description |-> rewrite_job_description(<<>>, FALSE),
   categories |-> <<name>>, tags |-> <<>>,
   excerpt |-> rewrite_excerpt("Nurse at Acme", FALSE), apply_url |-> None]

InitTerm ==
  /\ CrawlInit /\ ki = Idle
  /\ tm \in {[phase |-> "call", name |-> n, search |-> s, create |-> c, resp |-> r,
              result |-> None, pub |-> NoData] :
               n \in TermNames, s \in SearchResponses, c \in CreateResponses,
               r \in PostResponses}

\* one call get_wp_term_id(name, "categories")
LookupTerm ==
  /\ tm.phase = "call"
  /\ tm' = [tm EXCEPT !.phase = "looked",
                      !.result = get_wp_term_id(tm.name, tm.search, tm.create)]
  /\ UNCHANGED <<crawlVars, ki>>

\* post_to_wordpress of a job whose only category is name
PublishTerm ==
  /\ tm.phase = "looked"
  /\ tm' = [tm EXCEPT !.phase = "published",
                      !.pub = post_to_wordpress(TermJob(tm.name), tm.search,
                                                tm.create, tm.resp)]
  /\ UNCHANGED <<crawlVars, ki>>

NextTerm == LookupTerm \/ PublishTerm

SpecTerm == InitTerm /\ [][NextTerm]_vars

\* ================================================================ claims

\* C1: a create-post request is only ever submitted for a job_id that is not
\* in posted_jobs at that moment, so over all runs and listings no job_id is
\* published (answered 201) more than once.
C1_NeverRepublished ==
  /\ pc = "post" => job_id \notin posted
  /\ \A j \in JobIds : pubOk[j] <= 1
  /\ \A j \in JobIds : pubOk[j] = 1 => j \in posted

\* a second run meets a job published by the first and skips it
C1_Witness ==
  run = 2 /\ pc = "parse" /\ nSkipped = 1 /\ job_id \in posted0 /\ pubOk[job_id] = 1

\* C2: posted_jobs grows only by the job_id whose create-post request was
\* just answered 201; a failed publish is counted as a failure and leaves
\* posted_jobs alone, and a later link with that job_id is published again.
C2_MarkOnlyOnCreated ==
  [][/\ posted' # posted =>
          /\ pc = "post" /\ posted' = posted \cup {job_id}
          /\ nCreated' = nCreated + 1 /\ pubReqs' = pubReqs + 1
     /\ nPubFail' = nPubFail + 1 =>
          /\ posted' = posted /\ job_id \notin posted'
          /\ all_failed' = all_failed + 1 /\ all_success' = all_success
          /\ nCreated' = nCreated
     /\ (pc = "check" /\ job_id \in failedEver) => pc' = "post"
     /\ failedEver' \cap posted' = {}]_vars

\* the second run publishes again a job whose publish failed in the first
C2_Witness ==
  run = 2 /\ pc = "post" /\ nPubFail = 0 /\ job_id \in failedEver

\* C3: a fetched detail page without apply link gives job_id = None with the
\* record still returned; the link is counted as one failure, no create-post
\* request is sent for it and posted_jobs is not touched.
C3_NoApplyLink ==
  [][(pc = "check" /\ detail # NoData /\ detail.apply_tag = NoData) =>
        /\ job_id = None /\ resolved_url = None /\ job_data # NoData
        /\ all_failed' = all_failed + 1 /\ all_success' = all_success
        /\ pubReqs' = pubReqs /\ posted' = posted /\ attempted' = attempted
        /\ pc' # "post"]_vars

\* a page without apply link was parsed, its description rewritten
C3_Witness ==
  /\ pc = "check" /\ detail # NoData /\ detail.apply_tag = NoData
  /\ job_data # NoData /\ job_data.description.rewritten

\* C4: the counts account for every processed link once: successes are the
\* publishes answered 201 and the ids newly in posted_jobs, failures are the
\* links without job_id plus the failed publishes, skipped links count in
\* neither; the report prints these counts.  With job A (no apply link) and
\* job B (/apply-now/12345, not posted, answered 201) as the only links, one
\* request is sent, the report is 1 success, 1 failure and posted_jobs is
\* exactly {"12345"}.
C4_CountsAccount ==
  /\ all_success = nCreated
  /\ all_success = Cardinality(posted \ posted0)
  /\ all_failed = nNoId + nPubFail
  /\ pubReqs = nCreated + nPubFail
  /\ nDone = all_success + all_failed + nSkipped
  /\ pc = "done" => report = <<all_success, all_failed>>
  /\ (/\ pc = "done" /\ posted0 = {} /\ nDone = 2
      /\ nNoApply = 1 /\ nNoId = 1 /\ nCreated = 1 /\ job_id = "12345") =>
        /\ pubReqs = 1 /\ report = <<1, 1>> /\ posted = {"12345"}

\* the run over job A and job B has ended
C4_Witness ==
  /\ pc = "done" /\ posted0 = {} /\ nDone = 2
  /\ nNoApply = 1 /\ nNoId = 1 /\ nCreated = 1 /\ job_id = "12345"

\* C5: pages are visited in the order 1, 2, 3, ...; the first page whose
\* fetch fails or that lists no job ends the loop: nothing more is parsed or
\* published in that run, posted_jobs keeps what it has, the final step runs
\* and the run terminates.
C5_StopsAtFirstBadPage ==
  /\ [][/\ page' = page \/ (page' = page + 1 /\ pc = "advance")
           \/ (page' = 1 /\ pc = "done")
        /\ pc = "page" =>
             /\ fetched' \in {"failed", "empty"} => pc' = "final"
             /\ fetched' = "links" => pc' = "parse" /\ idx' = 1
        /\ pc = "final" => pc' = "done" /\ report' = <<all_success, all_failed>>
        /\ (pc \in {"final", "done"} /\ run' = run) =>
             /\ posted' = posted /\ nDone' = nDone /\ pubReqs' = pubReqs
             /\ page' = page /\ detail' = detail
        /\ posted \subseteq posted']_vars
  /\ (pc = "page") ~> (pc = "done")

\* page 1 was processed with a publish, page 2 failed, the run has ended
C5_Witness ==
  pc = "done" /\ page = 2 /\ fetched = "failed" /\ nCreated >= 1 /\ posted # {}

\* C8 as stated: the rewriter is not called for a job that is already posted
C8_Original == (pc = "check" /\ job_id \in posted) => rewrites = 0

\* C8: the rewriter is called inside parse_job, before the dedup check: its
\* four calls are made for every link whose detail page was fetched, posted
\* or not, and for no other.
C8_RewriteBeforeDedup ==
  pc \in {"check", "post"} => rewrites = (IF detail = NoData THEN 0 ELSE 4)

\* an already posted job reaches the dedup check with its texts rewritten
C8_Witness ==
  pc = "check" /\ job_id \in posted /\ rewrites = 4 /\ job_data.title.rewritten

\* C9 as stated: every key of the cache was published and marked in this run
\* (read between two links, once the publish of the last one has returned)
C9_Original == pc # "post" => \A k \in DOMAIN cache : k \in posted \ posted0

\* C9: the cache gains job_id -> resolved apply URL when an unseen job passes
\* the dedup check, before its publish and whatever the outcome: the keys of
\* the cache are the job_ids handed to post_to_wordpress in this run.
C9_CacheOnAttempt ==
  /\ DOMAIN cache = attempted
  /\ pc = "post" => (job_id \in DOMAIN cache /\ cache[job_id] = resolved_url)
  /\ pc # "post" => Cardinality(attempted) <= nCreated + nPubFail

\* a job whose publish failed is a key of the cache
C9_Witness ==
  pc = "parse" /\ nPubFail = 1 /\ nCreated = 0 /\ job_id \in DOMAIN cache /\ job_id \notin posted

\* C10 as stated: after a run the file holds exactly the run's mapping and
\* nothing from earlier runs
C10_Original == pc = "done" => cacheFile.data = cache

\* C10: the file is written at most once, in the final step; a run with a
\* non-empty cache leaves exactly its mapping in the file, a run with an
\* empty cache does not write and leaves the file as it found it.
C10_OverwriteIfNonEmpty ==
  /\ pc # "done" => (writes = 0 /\ cacheFile = cacheFile0)
  /\ (pc = "done" /\ cache # EmptyDict) =>
        (cacheFile.exists /\ cacheFile.data = cache /\ writes = 1)
  /\ (pc = "done" /\ cache = EmptyDict) => (writes = 0 /\ cacheFile = cacheFile0)

\* a second run with entries overwrote a file holding another job's entry
C10_Witness ==
  /\ run = 2 /\ pc = "done" /\ writes = 1 /\ cacheFile0.exists
  /\ DOMAIN cacheFile0.data # DOMAIN cacheFile.data /\ cacheFile.data = cache

\* ------------------------------------------------------------ C6 (terms)
Looked == tm.phase \in {"looked", "published"}

\* index of the first search result matching the name case-insensitively
\* with no nameless result before it; 0 if there is none
FirstMatch(ts, name) ==
  LET ok(i) == /\ ts[i].has_name /\ lower(ts[i].name) = lower(name)
               /\ \A k \in 1..i : ts[k].has_name
  IN IF \E i \in 1..Len(ts) : ok(i)
     THEN CHOOSE i \in 1..Len(ts) : ok(i) /\ \A k \in 1..(i - 1) : ~ok(k)
     ELSE 0

Nameless(ts) == \E i \in 1..Len(ts) : ~ts[i].has_name
CreateFailed(c) == c.exc \/ c.status \notin {200, 201}

\* C6 as stated: any transport or API error in the search yields None
C6_Original ==
  (Looked /\ (tm.search.exc \/ tm.search.status # 200)) => tm.result = None

\* C6: a 200 search with a case-insensitive name match gives that term's id;
\* a search answered with another status, or without a match, leads to a
\* creation whose 200/201 answer gives the new id; an exception in the search
\* or in the creation, or another creation status, gives None; nothing is
\* raised, and a None id is left out of the payload of a post still sent.
C6_EnsureTerm ==
  /\ Looked =>
       /\ tm.result # Raised
       /\ tm.search.exc => tm.result = None
       /\ (~tm.search.exc /\ tm.search.status = 200
            /\ FirstMatch(tm.search.terms, tm.name) # 0) =>
             tm.result = tm.search.terms[FirstMatch(tm.search.terms, tm.name)].id
       /\ (~tm.search.exc /\ tm.search.status = 200
            /\ FirstMatch(tm.search.terms, tm.name) = 0
            /\ Nameless(tm.search.terms)) => tm.result = None
       /\ (~tm.search.exc
            /\ (tm.search.status # 200 \/ (FirstMatch(tm.search.terms, tm.name) = 0
                                           /\ ~Nameless(tm.search.terms)))) =>
             tm.result = (IF CreateFailed(tm.create) THEN None ELSE tm.create.id)
  /\ tm.phase = "published" =>
       /\ tm.pub.sent
       /\ tm.pub.payload.categories = (IF Truthy(tm.result) THEN <<tm.result>> ELSE <<>>)
       /\ tm.pub.ok = (~tm.resp.exc /\ tm.resp.status = 201)

\* the search was answered 500, the term was created all the same and the
\* post carries its id
C6_Witness ==
  /\ tm.phase = "published" /\ ~tm.search.exc /\ tm.search.status = 500
  /\ tm.result = "9" /\ tm.pub.payload.categories = <<"9">> /\ tm.pub.ok

\* --------------------------------------------------------- C7 (key-info)
Parsed == ki.phase = "parsed"

\* the stripped text of the Job Field value span
FieldVal ==
  strip(ki.soup.lis[CHOOSE i \in 1..Len(ki.soup.lis) :
                       ki.soup.lis[i].key = "Job Field"].val)
\* number of '/'-separated values in it
FieldN == 1 + Cardinality({i \in 1..Len(FieldVal) : FieldVal[i] = "/"})
Fields == split_fields(FieldVal)

IsFieldAnchor(tok) == tok.t = "a" /\ tok.href[2] = "/jobs-by-field/"
FieldAnchors(html) == {i \in 1..Len(html) : IsFieldAnchor(html[i])}

\* N field anchors, one per value and in order, with " / " between them
JoinedAnchors(html) ==
  /\ Cardinality(FieldAnchors(html)) = FieldN
  /\ \E p \in 1..Len(html) :
       /\ \A k \in 0..(FieldN - 1) :
            /\ p + 2 * k <= Len(html)
            /\ IsFieldAnchor(html[p + 2 * k])
            /\ html[p + 2 * k].s = Fields[k + 1]
            /\ k < FieldN - 1 =>
                 (html[p + 2 * k + 1].t = "text" /\ html[p + 2 * k + 1].s = Joiner)
       /\ html[p - 1].t = "markup" /\ html[p + 2 * FieldN - 1].t = "markup"

\* entries of the tag list that are "{field} Jobs" for a value of the field
FieldTagCount ==
  Cardinality({i \in 1..Len(ki.tags) :
                 \E j \in 1..Len(Fields) : ki.tags[i] = Fields[j] \o SufJobs})

\* C7 as stated (for values without empty segments): N anchors and N
\* "{field} Jobs" tags
C7_Original ==
  (Parsed /\ \A j \in 1..Len(Fields) : Fields[j] # <<>>) =>
     (JoinedAnchors(ki.html) /\ FieldTagCount = FieldN)

\* C7: the rebuilt HTML has exactly N anchors joined by " / "; the
\* de-duplicated tag list has one "{field} Jobs" tag per distinct value of a
\* non-empty Job Field (N only if the values differ), none for an empty one.
C7_FieldLinksAndTags ==
  Parsed =>
    /\ JoinedAnchors(ki.html)
    /\ Len(Fields) = FieldN
    /\ FieldTagCount = (IF FieldVal = <<>> THEN 0
                        ELSE Cardinality({Fields[j] : j \in 1..Len(Fields)}))

\* "a/a": two anchors, one tag
C7_Witness ==
  /\ Parsed /\ FieldVal = <<"a", "/", "a">> /\ FieldN = 2
  /\ Cardinality(FieldAnchors(ki.html)) = 2 /\ FieldTagCount = 1

====
